---- MODULE Spec2Model ----
(***************************************************************************)
(* Model of the two Hawkbit scripts of misc/:                              *)
(*   hawkbit-upload.py          management client + upload workflow        *)
(*   hawkbit-monitor-status.py  reduced client + monitor workflow          *)
(* The Hawkbit server is the environment: it answers every request either  *)
(* with the success status of the endpoint or with a refusal.              *)
(***************************************************************************)
EXTENDS Integers, Sequences, FiniteSets, TLC

VARIABLES
    httpCall,   \* the HTTP helper last called: [script, verb, payload, resp]
    httpOut,    \* what that helper did: a return or a raised exception
    mpc,        \* monitor script: position in __main__
    mTargets,   \* server: the targets of the channel, each with its newest action
    mDists,     \* server: distribution sets, newest first
    distId,     \* monitor script: distribution_id
    toUpdate,   \* monitor script: targets_to_update
    assignLog,  \* monitor script: the assignment requests sent, in order
    id,         \* upload client: self.id, the last-used id of each kind
    srv,        \* server: the resources it holds
    call,       \* upload client: the method last called and what it did
    made,       \* id returned by the last successful create/upsert, per kind
    ncalls,     \* upload client: number of calls made so far
    upc,        \* upload script: position in __main__
    ulog,       \* upload script: the requests sent, in order, and how each ended
    uModuleIds, \* upload script: the module_ids argument
    uDistId,    \* upload script: dist_id
    uFilters,   \* upload script: filters
    channel_filter, \* upload script: channel_filter
    rollout     \* upload script: what createOrUpdateRollout did

httpVars == <<httpCall, httpOut>>
monVars == <<mpc, mTargets, mDists, distId, toUpdate, assignLog>>
cliVars == <<id, srv, call, made, ncalls>>
uplVars == <<upc, ulog, uModuleIds, uDistId, uFilters, channel_filter, rollout>>
vars == <<httpCall, httpOut, mpc, mTargets, mDists, distId, toUpdate, assignLog,
          id, srv, call, made, ncalls,
          upc, ulog, uModuleIds, uDistId, uFilters, channel_filter, rollout>>

None == "None"

(***************************************************************************)
(* Bounds of the response space.                                           *)
(***************************************************************************)
MinStatus == 198
MaxStatus == 204

StatusCodes == (MinStatus..MaxStatus) \cup {299, 300, 404, 409, 500}

\* A response: its status code and whether its body decodes as JSON.
Responses == [status : StatusCodes, json : BOOLEAN]

(***************************************************************************)
(* Outcomes of a call: a returned value or a raised exception.             *)
(***************************************************************************)
Return(v) == [kind |-> "return", status |-> 0, body |-> v]
HawkbitError(status, body) == [kind |-> "HawkbitError", status |-> status, body |-> body]
JSONDecodeError == [kind |-> "JSONDecodeError", status |-> 0, body |-> None]
AssertionError == [kind |-> "AssertionError", status |-> 0, body |-> None]

\* req.json(): the parsed body, or the decoder's exception.
ReqJson(resp) ==
    IF resp.json THEN Return("parsed") ELSE JSONDecodeError

\* The statement inside `try:` raises HawkbitError with the decoded body;
\* evaluating req.json() in the f-string may raise first.
TryRaiseDecoded(resp) ==
    IF ReqJson(resp).kind = "return"
    THEN HawkbitError(resp.status, "decoded")
    ELSE ReqJson(resp)

\* `except:` and `except Exception:` catch every exception raised in the try
\* block, HawkbitError (a subclass of Exception) included.
ExceptCatches(exc) == exc.kind \in {"HawkbitError", "JSONDecodeError"}

\* try: raise HawkbitError(... req.json()) except: raise HawkbitError(... raw)
RaiseHttpError(resp) ==
    IF ExceptCatches(TryRaiseDecoded(resp))
    THEN HawkbitError(resp.status, "raw")
    ELSE TryRaiseDecoded(resp)

\* upload client: get()
UploadGetOutcome(resp) ==
    IF resp.status # 200 THEN RaiseHttpError(resp) ELSE ReqJson(resp)

\* upload client: post(); payload is which of json_data / file_name is given
Payloads == {"none", "json", "file", "both"}

\* post() with the status test of get()
UploadPostOutcomeOnly200(resp, payload) ==
    IF resp.status # 200
    THEN RaiseHttpError(resp)
    ELSE IF payload \in {"json", "file"} THEN ReqJson(resp) ELSE Return(None)

UploadPostOutcome(resp, payload) ==
    IF ~(200 <= resp.status /\ resp.status < 300)
    THEN RaiseHttpError(resp)
    ELSE IF payload \in {"json", "file"} THEN ReqJson(resp) ELSE Return(None)

\* upload client: put() and delete() return nothing
UploadPutOutcome(resp) ==
    IF ~(200 <= resp.status /\ resp.status < 300)
    THEN RaiseHttpError(resp)
    ELSE Return(None)

UploadDeleteOutcome(resp) ==
    IF ~(200 <= resp.status /\ resp.status < 300)
    THEN RaiseHttpError(resp)
    ELSE Return(None)

\* monitor client: get() and post()
MonitorGetOutcome(resp) ==
    IF resp.status # 200 THEN HawkbitError(resp.status, "raw") ELSE ReqJson(resp)

MonitorPostOutcome(resp) ==
    IF resp.status \notin {200, 201}
    THEN HawkbitError(resp.status, "raw")
    ELSE ReqJson(resp)

(***************************************************************************)
(* The HTTP helpers as operations on an arbitrary response.                *)
(***************************************************************************)
NoCall == [script |-> None, verb |-> None, payload |-> None,
           resp |-> [status |-> 0, json |-> FALSE]]
NoOutcome == [kind |-> None, status |-> 0, body |-> None]

HttpCall(script, verb, payload, resp) ==
    [script |-> script, verb |-> verb, payload |-> payload, resp |-> resp]

UploadGet ==
    \E resp \in Responses :
        /\ httpCall' = HttpCall("upload", "get", "none", resp)
        /\ httpOut' = UploadGetOutcome(resp)
        /\ UNCHANGED <<monVars, cliVars, uplVars>>

UploadPost ==
    \E resp \in Responses, payload \in Payloads :
        /\ httpCall' = HttpCall("upload", "post", payload, resp)
        \* assert not (json_data and file_name), before anything is sent
        /\ httpOut' = IF payload = "both" THEN AssertionError
                      ELSE UploadPostOutcome(resp, payload)
        /\ UNCHANGED <<monVars, cliVars, uplVars>>

UploadPut ==
    \E resp \in Responses :
        /\ httpCall' = HttpCall("upload", "put", "json", resp)
        /\ httpOut' = UploadPutOutcome(resp)
        /\ UNCHANGED <<monVars, cliVars, uplVars>>

UploadDelete ==
    \E resp \in Responses :
        /\ httpCall' = HttpCall("upload", "delete", "none", resp)
        /\ httpOut' = UploadDeleteOutcome(resp)
        /\ UNCHANGED <<monVars, cliVars, uplVars>>

MonitorGet ==
    \E resp \in Responses :
        /\ httpCall' = HttpCall("monitor", "get", "none", resp)
        /\ httpOut' = MonitorGetOutcome(resp)
        /\ UNCHANGED <<monVars, cliVars, uplVars>>

MonitorPost ==
    \E resp \in Responses :
        /\ httpCall' = HttpCall("monitor", "post", "json", resp)
        /\ httpOut' = MonitorPostOutcome(resp)
        /\ UNCHANGED <<monVars, cliVars, uplVars>>

(***************************************************************************)
(* hawkbit-monitor-status.py                                               *)
(*                                                                         *)
(* Text is a sequence of atoms: the separators ", " and ": " and words     *)
(* that contain neither.  A word stands for itself.                        *)
(***************************************************************************)
CS == ", "
CL == ": "
SUCCESS == "Software bundle installed successfully."

RECURSIVE Split(_, _)
\* str.split(sep): the pieces between the occurrences of sep
Split(s, sep) ==
    IF \A i \in 1..Len(s) : s[i] # sep
    THEN <<s>>
    ELSE LET i == CHOOSE k \in 1..Len(s) :
                      s[k] = sep /\ \A j \in 1..(k - 1) : s[j] # sep
         IN  <<SubSeq(s, 1, i - 1)>> \o Split(SubSeq(s, i + 1, Len(s)), sep)

\* d.startswith('Type:') / d.startswith('Message:')
StartsWithLabel(d, label) ==
    Len(d) >= 2 /\ d[1] = label /\ d[2] = CL

\* the value of next(..., None): a text, or None
Found(text) == [found |-> TRUE, text |-> text]
NotFound == [found |-> FALSE, text |-> <<>>]

\* next((d.split(': ')[1] for d in details if d.startswith(label + ':')), None)
FirstLabelled(details, label) ==
    IF \A i \in 1..Len(details) : ~StartsWithLabel(details[i], label)
    THEN NotFound
    ELSE LET i == CHOOSE k \in 1..Len(details) :
                      /\ StartsWithLabel(details[k], label)
                      /\ \A j \in 1..(k - 1) : ~StartsWithLabel(details[j], label)
         IN  Found(Split(details[i], CL)[2])

\* The newest status entry of an action: its type and its messages field,
\* which is absent or a list of texts (the first one is the one read).
NoMessages == [present |-> FALSE, list |-> <<>>]
Messages(list) == [present |-> TRUE, list |-> list]
NoEntry == [type |-> None, messages |-> NoMessages]
\* An action: its status and its newest status entry (NoEntry: no entries).
NoAction == [status |-> None, entry |-> NoEntry]

\* get_recent_action_status: the 'details' text of the newest action
DetailedStatus(action) ==
    IF action.entry = NoEntry
    THEN <<"No detailed status available">>
    ELSE <<"Type", CL, action.entry.type, CS, "Status", CL, action.status>>
         \o (IF ~action.entry.messages.present
             THEN <<>>
             ELSE <<CS, "Message", CL>>
                  \o (IF action.entry.messages.list = <<>>
                      THEN <<"No message">>
                      ELSE action.entry.messages.list[1]))

\* a status made up for a target without actions
RecentActionStatusMadeUp(target) ==
    IF target.action = NoAction
    THEN [some |-> TRUE, status |-> "Unknown",
          details |-> <<"No detailed status available">>]
    ELSE [some |-> TRUE, status |-> target.action.status,
          details |-> DetailedStatus(target.action)]

\* get_recent_action_status: None for a target without actions, else the
\* status and the details of the first (newest) action of the listing
RecentActionStatus(target) ==
    IF target.action = NoAction
    THEN [some |-> FALSE, status |-> None, details |-> <<>>]
    ELSE [some |-> TRUE, status |-> target.action.status,
          details |-> DetailedStatus(target.action)]

\* the decision without the test of the message
NeedsUpdateAnyFinished(target) ==
    LET action_status == RecentActionStatus(target)
    IN  IF ~action_status.some
        THEN FALSE
        ELSE LET details == Split(action_status.details, CS)
                 action_type == FirstLabelled(details, "Type")
             IN  /\ action_type # Found(<<"running">>)
                 /\ ~(action_status.status = "finished")

\* the decision without the test for 'running'
NeedsUpdateNoRunning(target) ==
    LET action_status == RecentActionStatus(target)
    IN  IF ~action_status.some
        THEN FALSE
        ELSE LET details == Split(action_status.details, CS)
                 message == FirstLabelled(details, "Message")
             IN  ~(/\ action_status.status = "finished"
                   /\ message = Found(<<SUCCESS>>))

\* process_targets, the decision taken for one target
NeedsUpdate(target) ==
    LET action_status == RecentActionStatus(target)
    IN  IF ~action_status.some
        THEN FALSE
        ELSE LET details == Split(action_status.details, CS)
                 action_type == FirstLabelled(details, "Type")
                 message == FirstLabelled(details, "Message")
             IN  /\ action_type # Found(<<"running">>)
                 /\ ~(/\ action_status.status = "finished"
                      /\ message = Found(<<SUCCESS>>))

RECURSIVE TargetsToUpdate(_)
\* process_targets, the loop: the ids of the targets to update, in order
TargetsToUpdate(targets) ==
    IF targets = <<>>
    THEN <<>>
    ELSE (IF NeedsUpdate(Head(targets)) THEN <<Head(targets).id>> ELSE <<>>)
         \o TargetsToUpdate(Tail(targets))

\* What the server sends in the monitor workflow: the endpoint's success
\* answer (status 200, JSON body) or a refusal.
OkResponse == [status |-> 200, json |-> TRUE]
Refusals == {[status |-> 409, json |-> TRUE], [status |-> 500, json |-> FALSE]}

\* __main__: where an exception raised in the try block takes the script
AfterRaise(outcome) ==
    IF outcome.kind = "HawkbitError" THEN "error" ELSE "crashed"

\* __main__: client.get_latest_distribution() and latest_distribution['id']
GetLatestDistribution ==
    /\ mpc = "latest"
    /\ \E resp \in {OkResponse} \cup Refusals :
        LET out == MonitorGetOutcome(resp)
        IN  IF out.kind # "return"
            THEN /\ mpc' = AfterRaise(out)
                 /\ UNCHANGED distId
            ELSE IF mDists = <<>>
            THEN \* raise HawkbitError("No available distributions found")
                 /\ mpc' = "error"
                 /\ UNCHANGED distId
            ELSE /\ distId' = mDists[1]
                 /\ mpc' = "process"
    /\ UNCHANGED <<mTargets, mDists, toUpdate, assignLog>>
    /\ UNCHANGED <<httpVars, cliVars, uplVars>>

\* the GET requests process_targets sends: the target query, then for each
\* target its actions and, when it has one, the status of the newest
NumGets(targets) ==
    1 + Len(targets)
      + Cardinality({i \in 1..Len(targets) : targets[i].action # NoAction})

\* __main__: process_targets(client, channel) and the branch on its result
ProcessTargets ==
    /\ mpc = "process"
    /\ \/ \* every GET is answered
          /\ MonitorGetOutcome(OkResponse).kind = "return"
          /\ toUpdate' = TargetsToUpdate(mTargets)
          /\ mpc' = IF toUpdate' # <<>> THEN "reassign" ELSE "done"
       \/ \* the k-th GET is refused
          \E k \in 1..NumGets(mTargets), resp \in Refusals :
              /\ mpc' = AfterRaise(MonitorGetOutcome(resp))
              /\ UNCHANGED toUpdate
    /\ UNCHANGED <<mTargets, mDists, distId, assignLog>>
    /\ UNCHANGED <<httpVars, cliVars, uplVars>>

\* a request for a soft assignment
AssignRequestSoft(target_id, distribution_id) ==
    [target |-> target_id, id |-> distribution_id, type |-> "soft"]

\* assign_distribution: the request body built for one target
AssignRequest(target_id, distribution_id) ==
    [target |-> target_id, id |-> distribution_id, type |-> "forced"]

\* the loop body without its try/except
ReassignReportNoCatch(outcome) ==
    IF outcome.kind = "return" THEN "reassigned" ELSE "uncaught"

\* reassign_distribution: what the except clause does with an outcome of
\* client.assign_distribution
ReassignReport(outcome) ==
    IF outcome.kind = "return" THEN "reassigned"
    ELSE IF outcome.kind = "HawkbitError" THEN "error"
    ELSE "uncaught"

\* reassign_distribution: one iteration of the loop over the targets
ReassignStep ==
    /\ mpc = "reassign"
    /\ Len(assignLog) < Len(toUpdate)
    /\ \E resp \in {OkResponse} \cup Refusals :
        LET target_id == toUpdate[Len(assignLog) + 1]
            out == MonitorPostOutcome(resp)
            report == ReassignReport(out)
        IN  /\ assignLog' = Append(assignLog,
                   [req |-> AssignRequest(target_id, distId),
                    status |-> resp.status, report |-> report])
            /\ mpc' = IF report = "uncaught" THEN AfterRaise(out)
                      ELSE IF Len(assignLog') = Len(toUpdate) THEN "done"
                      ELSE "reassign"
    /\ UNCHANGED <<mTargets, mDists, distId, toUpdate>>
    /\ UNCHANGED <<httpVars, cliVars, uplVars>>

(***************************************************************************)
(* hawkbit-upload.py: the management client.                               *)
(*                                                                         *)
(* Ids are positive integers; NoId is Python's None for an omitted         *)
(* argument, and the absence of a key in self.id.                          *)
(***************************************************************************)
NoId == 0
Kinds == {"target", "softwaremodule", "distributionset", "artifact",
          "targetfilter", "action"}

\* an error class of the id store's own
NotYetCreatedOwnKind == [kind |-> "IdStoreError", status |-> 0, body |-> "not yet created"]

NotYetCreated == [kind |-> "HawkbitError", status |-> 0, body |-> "not yet created"]
TypeError == [kind |-> "TypeError", status |-> 0, body |-> None]

\* a store that answers None for a missing key, as dict.get does
IdStoreGetOrNone(ids, key) == [ok |-> TRUE, v |-> ids[key]]

\* HawkbitIdStore.__getitem__
IdStoreGet(ids, key) ==
    IF ids[key] = NoId
    THEN [ok |-> FALSE, v |-> NoId]
    ELSE [ok |-> TRUE, v |-> ids[key]]

\* arg or self.id[key]
OrDefault(arg, ids, key) ==
    IF arg # NoId THEN [ok |-> TRUE, v |-> arg] ELSE IdStoreGet(ids, key)

\* if key in self.id and x == self.id[key]: del self.id[key]
\* a delete that never forgets the last-used id
DelIfLastNever(ids, key, x) == ids

\* a delete that forgets the last-used id whatever was deleted
DelIfLastAlways(ids, key, x) == [ids EXCEPT ![key] = NoId]

DelIfLast(ids, key, x) ==
    IF ids[key] # NoId /\ x = ids[key] THEN [ids EXCEPT ![key] = NoId] ELSE ids

\* a request as sent: verb, endpoint pattern, the ids put into the endpoint
\* (and, after them, the ids put into the body)
Req(verb, path, ids) == [verb |-> verb, path |-> path, ids |-> ids]

\* the server's answer: a refusal (409, a JSON body), or the endpoint's
\* success answer
Answer(refuse, okStatus) ==
    [status |-> IF refuse THEN 409 ELSE okStatus, json |-> TRUE]

\* what one method call did: the id store and the server after it, how it
\* ended, the id it returned (NoId: none) and the requests it sent
Done(ids, s, out, value, reqs) ==
    [id |-> ids, srv |-> s, out |-> out, value |-> value, reqs |-> reqs]

Returned(out) == out.kind = "return"

\* the largest id of a collection of records, for the next id to hand out
RECURSIVE SortedIds(_)
SortedIds(S) ==
    IF S = {} THEN <<>>
    ELSE LET m == CHOOSE x \in S : \A y \in S : x <= y
         IN  <<m>> \o SortedIds(S \ {m})

IdsOf(records) == {r.id : r \in records}
\* a listing of the server, ordered by id
Listing(records) ==
    LET ids == SortedIds(IdsOf(records))
    IN  [i \in 1..Len(ids) |-> CHOOSE r \in records : r.id = ids[i]]

NextId(s, table) == s.next[table] + 1
Bump(s, table) == [s.next EXCEPT ![table] = @ + 1]

(* targets *)

\* made-up ids are distinct from every other one
GeneratedTarget == 100 + ncalls

AddTargetOp(ids, s, target_id, refuse) ==
    LET tid == IF target_id # NoId THEN target_id ELSE GeneratedTarget
        req == Req("POST", "targets", <<tid>>)
        out == UploadPostOutcome(Answer(refuse \/ tid \in s.targets, 201), "json")
    IN  IF ~Returned(out)
        THEN Done(ids, s, out, NoId, <<req>>)
        ELSE Done([ids EXCEPT !["target"] = tid],
                  [s EXCEPT !.targets = @ \cup {tid}], Return(None), tid, <<req>>)

GetTargetOp(ids, s, target_id, refuse) ==
    LET t == OrDefault(target_id, ids, "target")
        req == Req("GET", "targets/{}", <<t.v>>)
    IN  IF ~t.ok
        THEN Done(ids, s, NotYetCreated, NoId, <<>>)
        ELSE Done(ids, s, UploadGetOutcome(Answer(refuse \/ t.v \notin s.targets, 200)),
                  NoId, <<req>>)

DeleteTargetOp(ids, s, target_id, refuse) ==
    LET t == OrDefault(target_id, ids, "target")
        req == Req("DELETE", "targets/{}", <<t.v>>)
        out == UploadDeleteOutcome(Answer(refuse \/ t.v \notin s.targets, 200))
    IN  IF ~t.ok
        THEN Done(ids, s, NotYetCreated, NoId, <<>>)
        ELSE IF ~Returned(out)
        THEN Done(ids, s, out, NoId, <<req>>)
        ELSE Done(DelIfLast(ids, "target", t.v),
                  [s EXCEPT !.targets = @ \ {t.v},
                            !.matching = @ \ {t.v},
                            !.actions = {a \in @ : a.target # t.v},
                            !.active = @ \ {a.id : a \in {x \in s.actions : x.target = t.v}}],
                  out, NoId, <<req>>)

GetAttributesOp(ids, s, target_id, refuse) ==
    LET t == OrDefault(target_id, ids, "target")
        req == Req("GET", "targets/{}/attributes", <<t.v>>)
    IN  IF ~t.ok
        THEN Done(ids, s, NotYetCreated, NoId, <<>>)
        ELSE Done(ids, s, UploadGetOutcome(Answer(refuse \/ t.v \notin s.targets, 200)),
                  NoId, <<req>>)

(* software modules *)

GeneratedName == "generated"

\* the server keeps (name, type) unique among the modules of one version
ModuleExists(s, name, type) ==
    name # GeneratedName /\ \E m \in s.modules : m.name = name /\ m.type = type

\* add_softwaremodule that keeps an id already stored
AddSoftwaremoduleOpKeepsFirst(ids, s, name, module_type, refuse) ==
    LET n == IF name # None THEN name ELSE GeneratedName
        new == NextId(s, "softwaremodule")
        req == Req("POST", "softwaremodules", <<>>)
        out == UploadPostOutcome(Answer(refuse \/ ModuleExists(s, n, module_type), 201),
                                 "json")
    IN  IF ~Returned(out)
        THEN Done(ids, s, out, NoId, <<req>>)
        ELSE Done(IF ids["softwaremodule"] = NoId
                  THEN [ids EXCEPT !["softwaremodule"] = new] ELSE ids,
                  [s EXCEPT !.modules = @ \cup {[id |-> new, name |-> n, type |-> module_type]},
                            !.next = Bump(s, "softwaremodule")],
                  Return(None), new, <<req>>)

AddSoftwaremoduleOp(ids, s, name, module_type, refuse) ==
    LET n == IF name # None THEN name ELSE GeneratedName
        new == NextId(s, "softwaremodule")
        req == Req("POST", "softwaremodules", <<>>)
        out == UploadPostOutcome(Answer(refuse \/ ModuleExists(s, n, module_type), 201),
                                 "json")
    IN  IF ~Returned(out)
        THEN Done(ids, s, out, NoId, <<req>>)
        ELSE Done([ids EXCEPT !["softwaremodule"] = new],
                  [s EXCEPT !.modules = @ \cup {[id |-> new, name |-> n, type |-> module_type]},
                            !.next = Bump(s, "softwaremodule")],
                  Return(None), new, <<req>>)

GetSoftwaremoduleOp(ids, s, module_id, refuse) ==
    LET m == OrDefault(module_id, ids, "softwaremodule")
        req == Req("GET", "softwaremodules/{}", <<m.v>>)
        out == UploadGetOutcome(Answer(refuse \/ m.v \notin IdsOf(s.modules), 200))
    IN  IF ~m.ok
        THEN Done(ids, s, NotYetCreated, NoId, <<>>)
        ELSE Done(ids, s, out, IF Returned(out) THEN m.v ELSE NoId, <<req>>)

DeleteSoftwaremoduleOp(ids, s, module_id, refuse) ==
    LET m == OrDefault(module_id, ids, "softwaremodule")
        req == Req("DELETE", "softwaremodules/{}", <<m.v>>)
        out == UploadDeleteOutcome(Answer(refuse \/ m.v \notin IdsOf(s.modules), 200))
    IN  IF ~m.ok
        THEN Done(ids, s, NotYetCreated, NoId, <<>>)
        ELSE IF ~Returned(out)
        THEN Done(ids, s, out, NoId, <<req>>)
        ELSE Done(DelIfLast(ids, "softwaremodule", m.v),
                  [s EXCEPT !.modules = {x \in @ : x.id # m.v},
                            !.artifacts = {a \in @ : a.module # m.v}],
                  out, NoId, <<req>>)

\* a lookup that finds nothing
SoftwaremoduleByNameNone(s, name, module_type) == <<>>

\* get_softwaremodule_by_name: the first module of the listing with this
\* name and type, as a sequence of at most one element
SoftwaremoduleByName(s, name, module_type) ==
    SelectSeq(Listing(s.modules), LAMBDA m : m.name = name /\ m.type = module_type)

\* failAt: which request of the call the server refuses (0: none)
AddOrUpdateSoftwaremoduleOp(ids, s, name, module_type, failAt) ==
    LET get == Req("GET", "softwaremodules", <<>>)
        listed == UploadGetOutcome(Answer(failAt = 1, 200))
        existing == SoftwaremoduleByName(s, name, module_type)
        new == NextId(s, "softwaremodule")
        post == Req("POST", "softwaremodules", <<>>)
        out == UploadPostOutcome(Answer(failAt = 2 \/ ModuleExists(s, name, module_type), 201),
                                 "json")
    IN  IF ~Returned(listed)
        THEN Done(ids, s, listed, NoId, <<get>>)
        ELSE IF existing # <<>>
        THEN Done([ids EXCEPT !["softwaremodule"] = existing[1].id], s,
                  Return(None), existing[1].id, <<get>>)
        ELSE IF ~Returned(out)
        THEN Done(ids, s, out, NoId, <<get, post>>)
        ELSE Done([ids EXCEPT !["softwaremodule"] = new],
                  [s EXCEPT !.modules = @ \cup {[id |-> new, name |-> name, type |-> module_type]},
                            !.next = Bump(s, "softwaremodule")],
                  Return(None), new, <<get, post>>)

(* distribution sets *)

\* a lookup that finds nothing
DistributionsetByNameNone(s, name) == <<>>

\* get_distributionset_by_name: the first set of the listing with this name
DistributionsetByName(s, name) ==
    SelectSeq(Listing(s.dists), LAMBDA d : d.name = name)

\* module_ids: the list given, <<>> for the default
AddOrUpdateDistributionsetOp(ids, s, name, module_ids, failAt) ==
    LET get == Req("GET", "distributionsets", <<>>)
        listed == UploadGetOutcome(Answer(failAt = 1, 200))
        existing == DistributionsetByName(s, name)
        sm == IdStoreGet(ids, "softwaremodule")
        mods == IF module_ids # <<>> THEN module_ids ELSE <<sm.v>>
        new == NextId(s, "distributionset")
        post == Req("POST", "distributionsets", mods)
        \* the server keeps the name unique among the sets of one version and
        \* accepts only modules it holds
        refused == \/ failAt = 2
                   \/ \E d \in s.dists : d.name = name
                   \/ \E i \in 1..Len(mods) : mods[i] \notin IdsOf(s.modules)
        out == UploadPostOutcome(Answer(refused, 201), "json")
    IN  IF ~Returned(listed)
        THEN Done(ids, s, listed, NoId, <<get>>)
        ELSE IF existing # <<>>
        THEN Done([ids EXCEPT !["distributionset"] = existing[1].id], s,
                  Return(None), existing[1].id, <<get>>)
        ELSE IF module_ids = <<>> /\ ~sm.ok
        THEN Done(ids, s, NotYetCreated, NoId, <<get>>)
        ELSE IF ~Returned(out)
        THEN Done(ids, s, out, NoId, <<get, post>>)
        ELSE Done([ids EXCEPT !["distributionset"] = new],
                  [s EXCEPT !.dists = @ \cup {[id |-> new, name |-> name,
                                               modules |-> {mods[i] : i \in 1..Len(mods)}]},
                            !.next = Bump(s, "distributionset")],
                  Return(None), new, <<get, post>>)

GetDistributionsetOp(ids, s, dist_id, refuse) ==
    LET d == OrDefault(dist_id, ids, "distributionset")
        req == Req("GET", "distributionsets/{}", <<d.v>>)
    IN  IF ~d.ok
        THEN Done(ids, s, NotYetCreated, NoId, <<>>)
        ELSE Done(ids, s, UploadGetOutcome(Answer(refuse \/ d.v \notin IdsOf(s.dists), 200)),
                  NoId, <<req>>)

DeleteDistributionsetOp(ids, s, dist_id, refuse) ==
    LET d == OrDefault(dist_id, ids, "distributionset")
        req == Req("DELETE", "distributionsets/{}", <<d.v>>)
        out == UploadDeleteOutcome(Answer(refuse \/ d.v \notin IdsOf(s.dists), 200))
    IN  IF ~d.ok
        THEN Done(ids, s, NotYetCreated, NoId, <<>>)
        ELSE IF ~Returned(out)
        THEN Done(ids, s, out, NoId, <<req>>)
        ELSE Done(DelIfLast(ids, "distributionset", d.v),
                  [s EXCEPT !.dists = {x \in @ : x.id # d.v}],
                  out, NoId, <<req>>)

(* artifacts *)

ArtifactsOf(s, module) == {a \in s.artifacts : a.module = module}
ArtifactExists(s, module, artifact) ==
    \E a \in s.artifacts : a.id = artifact /\ a.module = module

AddArtifactOp(ids, s, module_id, refuse) ==
    LET m == OrDefault(module_id, ids, "softwaremodule")
        new == NextId(s, "artifact")
        req == Req("POST", "softwaremodules/{}/artifacts", <<m.v>>)
        out == UploadPostOutcome(Answer(refuse \/ m.v \notin IdsOf(s.modules), 201), "file")
    IN  IF ~m.ok
        THEN Done(ids, s, NotYetCreated, NoId, <<>>)
        ELSE IF ~Returned(out)
        THEN Done(ids, s, out, NoId, <<req>>)
        ELSE Done([ids EXCEPT !["artifact"] = new],
                  [s EXCEPT !.artifacts = @ \cup {[id |-> new, module |-> m.v]},
                            !.next = Bump(s, "artifact")],
                  Return(None), new, <<req>>)

GetArtifactOp(ids, s, artifact_id, module_id, refuse) ==
    LET m == OrDefault(module_id, ids, "softwaremodule")
        a == OrDefault(artifact_id, ids, "artifact")
        req == Req("GET", "softwaremodules/{}/artifacts/{}", <<m.v, a.v>>)
        out == UploadGetOutcome(Answer(refuse \/ ~ArtifactExists(s, m.v, a.v), 200))
    IN  IF ~m.ok \/ ~a.ok
        THEN Done(ids, s, NotYetCreated, NoId, <<>>)
        ELSE Done(ids, s, out, IF Returned(out) THEN a.v ELSE NoId, <<req>>)

DeleteArtifactOp(ids, s, artifact_id, module_id, refuse) ==
    LET m == OrDefault(module_id, ids, "softwaremodule")
        a == OrDefault(artifact_id, ids, "artifact")
        req == Req("DELETE", "softwaremodules/{}/artifacts/{}", <<m.v, a.v>>)
        out == UploadDeleteOutcome(Answer(refuse \/ ~ArtifactExists(s, m.v, a.v), 200))
    IN  IF ~m.ok \/ ~a.ok
        THEN Done(ids, s, NotYetCreated, NoId, <<>>)
        ELSE IF ~Returned(out)
        THEN Done(ids, s, out, NoId, <<req>>)
        ELSE Done(DelIfLast(ids, "artifact", a.v),
                  [s EXCEPT !.artifacts = {x \in @ : x.id # a.v}],
                  out, NoId, <<req>>)

\* a loop that deletes nothing
DeleteArtifactsSkipped(r, listed, module, failAt) == r

RECURSIVE DeleteArtifacts(_, _, _, _)
\* add_or_update_artifact, the loop: delete_artifact for each listed
\* artifact; the server refuses the one numbered failAt (0: none).  The
\* result is the state where the loop stops.
DeleteArtifacts(r, listed, module, failAt) ==
    IF listed = <<>> \/ ~Returned(r.out)
    THEN r
    ELSE LET one == DeleteArtifactOp(r.id, r.srv, Head(listed).id, module, failAt = 1)
         IN  DeleteArtifacts(Done(one.id, one.srv, one.out, NoId, r.reqs \o one.reqs),
                             Tail(listed), module, failAt - 1)

\* failAt numbers the requests of the call: the listing, the deletions in
\* listing order, the upload
AddOrUpdateArtifactOp(ids, s, module_id, failAt) ==
    LET m == OrDefault(module_id, ids, "softwaremodule")
        get == Req("GET", "softwaremodules/{}/artifacts", <<m.v>>)
        listed == UploadGetOutcome(Answer(failAt = 1 \/ m.v \notin IdsOf(s.modules), 200))
        existing == Listing(ArtifactsOf(s, m.v))
        del == DeleteArtifacts(Done(ids, s, listed, NoId, <<get>>), existing, m.v,
                               failAt - 1)
        new == NextId(del.srv, "artifact")
        post == Req("POST", "softwaremodules/{}/artifacts", <<m.v>>)
        out == UploadPostOutcome(Answer(failAt = Len(existing) + 2, 201), "file")
    IN  IF ~m.ok
        THEN Done(ids, s, NotYetCreated, NoId, <<>>)
        ELSE IF ~Returned(listed)
        THEN Done(ids, s, listed, NoId, <<get>>)
        ELSE IF ~Returned(del.out)
        THEN del
        ELSE IF ~Returned(out)
        THEN Done(del.id, del.srv, out, NoId, del.reqs \o <<post>>)
        ELSE Done([del.id EXCEPT !["artifact"] = new],
                  [del.srv EXCEPT !.artifacts = @ \cup {[id |-> new, module |-> m.v]},
                                  !.next = Bump(del.srv, "artifact")],
                  Return(None), new, del.reqs \o <<post>>)

(* target filters *)

AddTargetfilterOp(ids, s, query, refuse) ==
    LET new == NextId(s, "targetfilter")
        req == Req("POST", "targetfilters", <<>>)
        out == UploadPostOutcome(Answer(refuse, 201), "json")
    IN  IF ~Returned(out)
        THEN Done(ids, s, out, NoId, <<req>>)
        ELSE Done([ids EXCEPT !["targetfilter"] = new],
                  [s EXCEPT !.filters = @ \cup {[id |-> new, query |-> query, dist |-> NoId]},
                            !.next = Bump(s, "targetfilter")],
                  Return(None), new, <<req>>)

GetTargetfilterOp(ids, s, filter_id, refuse) ==
    LET f == OrDefault(filter_id, ids, "targetfilter")
        req == Req("GET", "targetfilters/{}", <<f.v>>)
    IN  IF ~f.ok
        THEN Done(ids, s, NotYetCreated, NoId, <<>>)
        ELSE Done(ids, s, UploadGetOutcome(Answer(refuse \/ f.v \notin IdsOf(s.filters), 200)),
                  NoId, <<req>>)

(* assignment and actions *)

ActionExists(s, target, action) ==
    \E a \in s.actions : a.id = action /\ a.target = target

\* self.version += 0.1, where self.version is the str the validator of the
\* attribute demands
IncrementVersion == TypeError

AssignTargetOp(ids, s, dist_id, target_id, refuse) ==
    LET d == OrDefault(dist_id, ids, "distributionset")
        t == OrDefault(target_id, ids, "target")
        new == NextId(s, "action")
        req == Req("POST", "distributionsets/{}/assignedTargets", <<d.v, t.v>>)
        out == UploadPostOutcome(
                   Answer(refuse \/ d.v \notin IdsOf(s.dists) \/ t.v \notin s.targets, 200),
                   "json")
        assigned == [s EXCEPT !.actions = @ \cup {[id |-> new, target |-> t.v, dist |-> d.v]},
                              !.active = @ \cup {new},
                              !.next = Bump(s, "action")]
    IN  IF ~d.ok \/ ~t.ok
        THEN Done(ids, s, NotYetCreated, NoId, <<>>)
        ELSE IF ~Returned(out)
        THEN Done(ids, s, out, NoId, <<req>>)
        ELSE IF ~Returned(IncrementVersion)
        THEN Done(ids, assigned, IncrementVersion, NoId, <<req>>)
        ELSE Done([ids EXCEPT !["action"] = new], assigned, Return(None), new, <<req>>)

GetActionOp(ids, s, action_id, target_id, refuse) ==
    LET a == OrDefault(action_id, ids, "action")
        t == OrDefault(target_id, ids, "target")
        req == Req("GET", "targets/{}/actions/{}", <<t.v, a.v>>)
    IN  IF ~a.ok \/ ~t.ok
        THEN Done(ids, s, NotYetCreated, NoId, <<>>)
        ELSE Done(ids, s, UploadGetOutcome(Answer(refuse \/ ~ActionExists(s, t.v, a.v), 200)),
                  NoId, <<req>>)

GetActionStatusOp(ids, s, action_id, target_id, refuse) ==
    LET a == OrDefault(action_id, ids, "action")
        t == OrDefault(target_id, ids, "target")
        req == Req("GET", "targets/{}/actions/{}/status", <<t.v, a.v>>)
    IN  IF ~a.ok \/ ~t.ok
        THEN Done(ids, s, NotYetCreated, NoId, <<>>)
        ELSE Done(ids, s, UploadGetOutcome(Answer(refuse \/ ~ActionExists(s, t.v, a.v), 200)),
                  NoId, <<req>>)

\* failAt: which of the (at most two) DELETE requests the server refuses
CancelActionOp(ids, s, action_id, target_id, force, failAt) ==
    LET a == OrDefault(action_id, ids, "action")
        t == OrDefault(target_id, ids, "target")
        req == Req("DELETE", "targets/{}/actions/{}", <<t.v, a.v>>)
        forced == Req("DELETE", "targets/{}/actions/{}?force=true", <<t.v, a.v>>)
        out == UploadDeleteOutcome(Answer(failAt = 1 \/ ~ActionExists(s, t.v, a.v), 200))
        out2 == UploadDeleteOutcome(Answer(failAt = 2, 200))
    IN  IF ~a.ok \/ ~t.ok
        THEN Done(ids, s, NotYetCreated, NoId, <<>>)
        ELSE IF ~Returned(out)
        THEN Done(ids, s, out, NoId, <<req>>)
        ELSE IF ~force
        THEN Done(ids, s, out, NoId, <<req>>)
        ELSE IF ~Returned(out2)
        THEN Done(ids, s, out2, NoId, <<req, forced>>)
        ELSE Done(ids, [s EXCEPT !.actions = {x \in @ : x.id # a.v},
                                 !.active = @ \ {a.v}], out2, NoId,
                  <<req, forced>>)

(* the calls of the upload workflow *)

\* the requests of r that the server refused, by their index in r.reqs, for
\* a method that lets the error of a request pass
FailedOf(r) ==
    IF r.out.kind = "HawkbitError" /\ r.out.status # 0 THEN {Len(r.reqs)} ELSE {}

\* what a method that catches errors did: as Done, with the indices of the
\* requests the server refused
Did(ids, s, out, value, reqs, failed) ==
    [id |-> ids, srv |-> s, out |-> out, value |-> value, reqs |-> reqs,
     failed |-> failed]

AsDid(r) == Did(r.id, r.srv, r.out, r.value, r.reqs, FailedOf(r))

\* one statement after another: r, then r2 run from where r ended
Then(r, r2) ==
    Did(r2.id, r2.srv, r2.out, r2.value, r.reqs \o r2.reqs,
        r.failed \cup {Len(r.reqs) + i : i \in r2.failed})

\* no except clause: the error leaves the method
Uncaught(r) == r

\* except HawkbitError: the method goes on, returning None
Caught(r) ==
    IF r.out.kind = "HawkbitError" THEN [r EXCEPT !.out = Return(None)] ELSE r

SetConfigOp(ids, s, refuse) ==
    Done(ids, s, UploadPutOutcome(Answer(refuse, 200)), NoId,
         <<Req("PUT", "system/configs/{}", <<>>)>>)

GetAllTargetfiltersOp(ids, s, refuse) ==
    Done(ids, s, UploadGetOutcome(Answer(refuse, 200)), NoId,
         <<Req("GET", "targetfilters?limit=100", <<>>)>>)

\* value: the filter's id for a response, NoId for None
UpdateTargetfilterOp(ids, s, filter_id, dist, refuse) ==
    LET req == Req("POST", "targetfilters/{}/autoAssignDS", <<filter_id, dist>>)
        out == UploadPostOutcome(
                   Answer(\/ refuse
                          \/ filter_id \notin IdsOf(s.filters)
                          \/ dist \notin IdsOf(s.dists), 200),
                   "json")
    IN  IF Returned(out)
        THEN Did(ids,
                 [s EXCEPT !.filters = {IF f.id = filter_id
                                        THEN [f EXCEPT !.dist = dist] ELSE f : f \in @}],
                 out, filter_id, <<req>>, {})
        ELSE Caught(Did(ids, s, out, NoId, <<req>>, {1}))

\* ensure_filter that does not look at the filters it is given
EnsureFilterOpAlwaysAdds(ids, s, fs, query, dist, failAt) ==
    LET new_filter == AsDid(AddTargetfilterOp(ids, s, query, failAt = 1))
    IN  IF ~Returned(new_filter.out)
        THEN new_filter
        ELSE [Then(new_filter,
                   UpdateTargetfilterOp(new_filter.id, new_filter.srv, new_filter.value,
                                        dist, failAt = 2))
                 EXCEPT !.value = new_filter.value]

\* failAt: which request of the call the server refuses (0: none).  value:
\* the id of the filter returned
EnsureFilterOp(ids, s, fs, query, dist, failAt) ==
    LET requested_filter == SelectSeq(fs, LAMBDA f : f.query = query)
        new_filter == AsDid(AddTargetfilterOp(ids, s, query, failAt = 1))
    IN  IF requested_filter # <<>>
        THEN [UpdateTargetfilterOp(ids, s, requested_filter[1].id, dist, failAt = 1)
                 EXCEPT !.value = requested_filter[1].id]
        ELSE IF ~Returned(new_filter.out)
        THEN new_filter
        ELSE [Then(new_filter,
                   UpdateTargetfilterOp(new_filter.id, new_filter.srv, new_filter.value,
                                        dist, failAt = 2))
                 EXCEPT !.value = new_filter.value]

GetActiveActionsOp(ids, s, target_id, refuse) ==
    Done(ids, s, UploadGetOutcome(Answer(refuse \/ target_id \notin s.targets, 200)), NoId,
         <<Req("GET", "targets/{}/actions?status=active,pending", <<target_id>>)>>)

\* the actions get_active_actions keeps
ActiveActions(s, target_id) ==
    Listing({a \in s.actions : a.target = target_id /\ a.id \in s.active})

GetTargetsByFilterOp(ids, s, query, refuse) ==
    Done(ids, s, UploadGetOutcome(Answer(refuse, 200)), NoId,
         <<Req("GET", "targets?q={}", <<>>)>>)

\* the controller ids in the answer to the query
TargetsByFilter(s) == SortedIds(s.matching \cap s.targets)

GetAllRolloutsOp(ids, s, refuse) ==
    Done(ids, s, UploadGetOutcome(Answer(refuse, 200)), NoId,
         <<Req("GET", "rollouts", <<>>)>>)

DeleteRolloutOp(ids, s, rollout_id, refuse) ==
    LET req == Req("DELETE", "rollouts/{}", <<rollout_id>>)
        out == UploadDeleteOutcome(Answer(refuse \/ rollout_id \notin IdsOf(s.rollouts), 200))
    IN  IF Returned(out)
        THEN Did(ids, [s EXCEPT !.rollouts = {x \in @ : x.id # rollout_id}], out, NoId,
                 <<req>>, {})
        ELSE Caught(Did(ids, s, out, NoId, <<req>>, {1}))

RECURSIVE CancelActive(_, _, _, _)
\* createOrUpdateRollout, the inner loop: cancel_action(force=True) for each
\* active action of the target, an error caught; cancelFail[a] is the DELETE
\* of action a that the server refuses (0: none)
CancelActive(r, active_actions, target_id, cancelFail) ==
    IF active_actions = <<>> \/ ~Returned(r.out)
    THEN r
    ELSE LET a == Head(active_actions).id
             one == AsDid(CancelActionOp(r.id, r.srv, a, target_id, TRUE, cancelFail[a]))
         IN  CancelActive(Then(r, Caught(one)), Tail(active_actions), target_id,
                          cancelFail)

RECURSIVE CancelTargets(_, _, _)
\* createOrUpdateRollout, the loop over the targets; f.actions is the target
\* whose action listing the server refuses (0: none)
CancelTargets(r, targets, f) ==
    IF targets = <<>> \/ ~Returned(r.out)
    THEN r
    ELSE LET target_id == Head(targets)
             got == Then(r, AsDid(GetActiveActionsOp(r.id, r.srv, target_id,
                                                     f.actions = target_id)))
         IN  CancelTargets(CancelActive(got, ActiveActions(r.srv, target_id), target_id,
                                        f.cancel),
                           Tail(targets), f)

\* a loop that deletes the first rollout only
DeleteRolloutsFirstOnly(r, existing_rollouts, deleteFail) ==
    IF existing_rollouts = <<>> \/ ~Returned(r.out)
    THEN r
    ELSE Then(r, DeleteRolloutOp(r.id, r.srv, Head(existing_rollouts).id,
                                 Head(existing_rollouts).id \in deleteFail))

RECURSIVE DeleteRollouts(_, _, _)
\* createOrUpdateRollout, the loop over the rollouts: deleteRollout for each;
\* deleteFail holds the rollouts whose DELETE the server refuses
DeleteRollouts(r, existing_rollouts, deleteFail) ==
    IF existing_rollouts = <<>> \/ ~Returned(r.out)
    THEN r
    ELSE DeleteRollouts(Then(r, DeleteRolloutOp(r.id, r.srv, Head(existing_rollouts).id,
                                                Head(existing_rollouts).id \in deleteFail)),
                        Tail(existing_rollouts), deleteFail)

\* the rollouts on the server when the call started, whether the POST that
\* creates the new rollout was sent, and the rollouts on the server then
RolloutResult(did, start, posted, atPost) ==
    [did |-> did, start |-> start, posted |-> posted, atPost |-> atPost]

\* createOrUpdateRollout, its last statement: the POST that creates the
\* rollout, its error caught
PostRolloutOp(ids, s, name, dist, refuse) ==
    LET new == NextId(s, "rollout")
        post == Req("POST", "rollouts", <<dist>>)
        \* the server keeps the name unique among the rollouts
        out == UploadPostOutcome(
                   Answer(\/ refuse
                          \/ dist \notin IdsOf(s.dists)
                          \/ \E x \in s.rollouts : x.name = name, 201),
                   "json")
    IN  IF Returned(out)
        THEN Did(ids,
                 [s EXCEPT !.rollouts = @ \cup {[id |-> new, name |-> name, dist |-> dist]},
                           !.next = Bump(s, "rollout")],
                 out, new, <<post>>, {})
        ELSE Caught(Did(ids, s, out, NoId, <<post>>, {1}))

\* createOrUpdateRollout from the end of the loop over the rollouts
AfterDeleteRollouts(deleted, start, name, dist, f) ==
    IF ~Returned(deleted.out)
    THEN RolloutResult(deleted, start, FALSE, {})
    ELSE RolloutResult(Then(deleted, PostRolloutOp(deleted.id, deleted.srv, name, dist, f.post)),
                       start, TRUE, IdsOf(deleted.srv.rollouts))

\* createOrUpdateRollout from the answer to getAllRollouts
AfterGetAllRollouts(listed, existing_rollouts, start, name, dist, f) ==
    IF ~Returned(listed.out)
    THEN RolloutResult(listed, start, FALSE, {})
    ELSE AfterDeleteRollouts(DeleteRollouts(listed, existing_rollouts, f.delete),
                             start, name, dist, f)

\* createOrUpdateRollout without the return for an empty target list
AfterCancelTargetsNoSkip(cancelled, targets, start, name, dist, f) ==
    IF ~Returned(cancelled.out)
    THEN RolloutResult(cancelled, start, FALSE, {})
    ELSE AfterGetAllRollouts(
             Then(cancelled, AsDid(GetAllRolloutsOp(cancelled.id, cancelled.srv, f.rollouts))),
             Listing(cancelled.srv.rollouts), start, name, dist, f)

\* createOrUpdateRollout from the end of the loop over the targets
AfterCancelTargets(cancelled, targets, start, name, dist, f) ==
    IF ~Returned(cancelled.out)
    THEN RolloutResult(cancelled, start, FALSE, {})
    ELSE IF targets = <<>>
    THEN RolloutResult([cancelled EXCEPT !.value = NoId], start, FALSE, {})
    ELSE AfterGetAllRollouts(
             Then(cancelled, AsDid(GetAllRolloutsOp(cancelled.id, cancelled.srv, f.rollouts))),
             Listing(cancelled.srv.rollouts), start, name, dist, f)

\* createOrUpdateRollout from the answer to get_targets_by_filter
AfterGetTargets(got, targets, start, name, dist, f) ==
    IF ~Returned(got.out)
    THEN RolloutResult(got, start, FALSE, {})
    ELSE AfterCancelTargets(CancelTargets(got, targets, f), targets, start, name, dist, f)

\* f: the requests of the call that the server refuses
CreateOrUpdateRolloutOp(ids, s, name, dist, target_filter_query, f) ==
    AfterGetTargets(AsDid(GetTargetsByFilterOp(ids, s, target_filter_query, f.targets)),
                    TargetsByFilter(s), IdsOf(s.rollouts), name, dist, f)

(***************************************************************************)
(* The methods of the client as operations a caller can invoke, with any   *)
(* arguments, in any order.                                                *)
(***************************************************************************)
MaxCalls == 3

\* an identifier argument: omitted, or one of two ids
ArgIds == {NoId, 1, 2}
Names == {"a", "b"}
ModuleTypes == {"os", "app"}
Queries == {"attribute.update_channel == \"stable\"",
            "attribute.update_channel==\"stable\""}

\* the kind whose id a method stores when it succeeds
StoredKind(method) ==
    CASE method = "add_target" -> "target"
      [] method \in {"add_softwaremodule", "add_or_update_softwaremodule"} -> "softwaremodule"
      [] method = "add_or_update_distributionset" -> "distributionset"
      [] method \in {"add_artifact", "add_or_update_artifact"} -> "artifact"
      [] method = "add_targetfilter" -> "targetfilter"
      [] method = "assign_target" -> "action"
      [] OTHER -> None

NoClientCall ==
    [method |-> None, kinds |-> <<>>, args |-> <<>>, name |-> None, type |-> None,
     before |-> [k \in Kinds |-> NoId], out |-> NoOutcome, value |-> NoId,
     reqs |-> <<>>]

\* One call of a method: kinds and args are the optional identifiers of the
\* method, in the order in which they appear in its request; name and
\* module_type are those arguments, where the method has them; r is what the
\* method did.
CallOfType(method, kinds, args, name, module_type, r) ==
    /\ ncalls < MaxCalls
    /\ ncalls' = ncalls + 1
    /\ id' = r.id
    /\ srv' = r.srv
    /\ call' = [method |-> method, kinds |-> kinds, args |-> args, name |-> name,
                type |-> module_type,
                before |-> id, out |-> r.out, value |-> r.value, reqs |-> r.reqs]
    /\ made' = IF StoredKind(method) # None /\ Returned(r.out)
               THEN [made EXCEPT ![StoredKind(method)] = r.value]
               ELSE made
    /\ UNCHANGED <<httpVars, monVars, uplVars>>

Call(method, kinds, args, name, r) == CallOfType(method, kinds, args, name, None, r)

add_target ==
    \E target_id \in ArgIds, refuse \in BOOLEAN :
        Call("add_target", <<>>, <<>>, None, AddTargetOp(id, srv, target_id, refuse))

get_target ==
    \E target_id \in ArgIds, refuse \in BOOLEAN :
        Call("get_target", <<"target">>, <<target_id>>, None,
             GetTargetOp(id, srv, target_id, refuse))

delete_target ==
    \E target_id \in ArgIds, refuse \in BOOLEAN :
        Call("delete_target", <<"target">>, <<target_id>>, None,
             DeleteTargetOp(id, srv, target_id, refuse))

get_attributes ==
    \E target_id \in ArgIds, refuse \in BOOLEAN :
        Call("get_attributes", <<"target">>, <<target_id>>, None,
             GetAttributesOp(id, srv, target_id, refuse))

add_softwaremodule ==
    \E name \in Names \cup {None}, module_type \in ModuleTypes, refuse \in BOOLEAN :
        CallOfType("add_softwaremodule", <<>>, <<>>, name, module_type,
                   AddSoftwaremoduleOp(id, srv, name, module_type, refuse))

get_softwaremodule ==
    \E module_id \in ArgIds, refuse \in BOOLEAN :
        Call("get_softwaremodule", <<"softwaremodule">>, <<module_id>>, None,
             GetSoftwaremoduleOp(id, srv, module_id, refuse))

delete_softwaremodule ==
    \E module_id \in ArgIds, refuse \in BOOLEAN :
        Call("delete_softwaremodule", <<"softwaremodule">>, <<module_id>>, None,
             DeleteSoftwaremoduleOp(id, srv, module_id, refuse))

add_or_update_softwaremodule ==
    \E name \in Names, module_type \in ModuleTypes, failAt \in 0..2 :
        CallOfType("add_or_update_softwaremodule", <<>>, <<>>, name, module_type,
                   AddOrUpdateSoftwaremoduleOp(id, srv, name, module_type, failAt))

add_or_update_distributionset ==
    \E name \in Names, module_ids \in {<<>>} \cup {<<m>> : m \in ArgIds \ {NoId}},
       failAt \in 0..2 :
        Call("add_or_update_distributionset", <<"softwaremodule">>,
             <<IF module_ids = <<>> THEN NoId ELSE module_ids[1]>>, name,
             AddOrUpdateDistributionsetOp(id, srv, name, module_ids, failAt))

get_distributionset ==
    \E dist_id \in ArgIds, refuse \in BOOLEAN :
        Call("get_distributionset", <<"distributionset">>, <<dist_id>>, None,
             GetDistributionsetOp(id, srv, dist_id, refuse))

delete_distributionset ==
    \E dist_id \in ArgIds, refuse \in BOOLEAN :
        Call("delete_distributionset", <<"distributionset">>, <<dist_id>>, None,
             DeleteDistributionsetOp(id, srv, dist_id, refuse))

add_artifact ==
    \E module_id \in ArgIds, refuse \in BOOLEAN :
        Call("add_artifact", <<"softwaremodule">>, <<module_id>>, None,
             AddArtifactOp(id, srv, module_id, refuse))

get_artifact ==
    \E artifact_id \in ArgIds, module_id \in ArgIds, refuse \in BOOLEAN :
        Call("get_artifact", <<"softwaremodule", "artifact">>, <<module_id, artifact_id>>,
             None, GetArtifactOp(id, srv, artifact_id, module_id, refuse))

delete_artifact ==
    \E artifact_id \in ArgIds, module_id \in ArgIds, refuse \in BOOLEAN :
        Call("delete_artifact", <<"softwaremodule", "artifact">>, <<module_id, artifact_id>>,
             None, DeleteArtifactOp(id, srv, artifact_id, module_id, refuse))

add_or_update_artifact ==
    \E module_id \in ArgIds, failAt \in 0..(Cardinality(srv.artifacts) + 2) :
        Call("add_or_update_artifact", <<"softwaremodule">>, <<module_id>>, None,
             AddOrUpdateArtifactOp(id, srv, module_id, failAt))

add_targetfilter ==
    \E query \in Queries, refuse \in BOOLEAN :
        Call("add_targetfilter", <<>>, <<>>, None,
             AddTargetfilterOp(id, srv, query, refuse))

get_targetfilter ==
    \E filter_id \in ArgIds, refuse \in BOOLEAN :
        Call("get_targetfilter", <<"targetfilter">>, <<filter_id>>, None,
             GetTargetfilterOp(id, srv, filter_id, refuse))

assign_target ==
    \E dist_id \in ArgIds, target_id \in ArgIds, refuse \in BOOLEAN :
        Call("assign_target", <<"distributionset", "target">>, <<dist_id, target_id>>,
             None, AssignTargetOp(id, srv, dist_id, target_id, refuse))

get_action ==
    \E action_id \in ArgIds, target_id \in ArgIds, refuse \in BOOLEAN :
        Call("get_action", <<"target", "action">>, <<target_id, action_id>>, None,
             GetActionOp(id, srv, action_id, target_id, refuse))

get_action_status ==
    \E action_id \in ArgIds, target_id \in ArgIds, refuse \in BOOLEAN :
        Call("get_action_status", <<"target", "action">>, <<target_id, action_id>>, None,
             GetActionStatusOp(id, srv, action_id, target_id, refuse))

cancel_action ==
    \E action_id \in ArgIds, target_id \in ArgIds, force \in BOOLEAN :
        \E failAt \in 0..(IF force THEN 2 ELSE 1) :
            Call("cancel_action", <<"target", "action">>, <<target_id, action_id>>, None,
                 CancelActionOp(id, srv, action_id, target_id, force, failAt))

(***************************************************************************)
(* hawkbit-upload.py: __main__, the upload workflow, one action per        *)
(* statement that calls the client.                                        *)
(***************************************************************************)
\* the command line: softwareModule, distribution, channel, bundle
SoftwareModule == "a"
Distribution == "a"
ChannelQuery == "attribute.update_channel == \"stable\""
RolloutName == "bundle.raucb"

NoFilter == [id |-> NoId, query |-> None]
NoRollout == [start |-> {}, posted |-> FALSE, atPost |-> {}, value |-> NoId]

\* the statement after each one
NextStatement ==
    [config1 |-> "config2", config2 |-> "config3", config3 |-> "module",
     module |-> "module_ids", module_ids |-> "distribution",
     distribution |-> "artifact", artifact |-> "filters", filters |-> "ensure",
     ensure |-> "rollout", rollout |-> "end"]

\* One statement of __main__: r is what the call did, failed the requests of
\* it that the server refused.  No statement of __main__ is inside a try: an
\* exception that leaves the call ends the script.
Statement(r, failed) ==
    /\ id' = r.id
    /\ srv' = r.srv
    /\ ulog' = ulog \o [i \in 1..Len(r.reqs) |->
                           [step |-> upc, req |-> r.reqs[i], ok |-> i \notin failed]]
    /\ upc' = IF Returned(r.out) THEN NextStatement[upc] ELSE "crashed"
    /\ UNCHANGED <<httpVars, monVars, call, made, ncalls>>

MainSetConfig ==
    /\ upc \in {"config1", "config2", "config3"}
    /\ \E refuse \in BOOLEAN :
          LET r == SetConfigOp(id, srv, refuse)
          IN  Statement(r, FailedOf(r))
    /\ UNCHANGED <<uModuleIds, uDistId, uFilters, channel_filter, rollout>>

MainSoftwaremodule ==
    /\ upc = "module"
    /\ \E failAt \in 0..2 :
          LET r == AddOrUpdateSoftwaremoduleOp(id, srv, SoftwareModule, "os", failAt)
          IN  Statement(r, FailedOf(r))
    /\ UNCHANGED <<uModuleIds, uDistId, uFilters, channel_filter, rollout>>

MainModuleIds ==
    /\ upc = "module_ids"
    /\ \E refuse \in BOOLEAN :
          LET r == GetSoftwaremoduleOp(id, srv, NoId, refuse)
          IN  /\ Statement(r, FailedOf(r))
              /\ uModuleIds' = IF Returned(r.out) THEN <<r.value>> ELSE uModuleIds
    /\ UNCHANGED <<uDistId, uFilters, channel_filter, rollout>>

MainDistributionset ==
    /\ upc = "distribution"
    /\ \E failAt \in 0..2 :
          LET r == AddOrUpdateDistributionsetOp(id, srv, Distribution, uModuleIds, failAt)
          IN  /\ Statement(r, FailedOf(r))
              /\ uDistId' = IF Returned(r.out) THEN r.value ELSE uDistId
    /\ UNCHANGED <<uModuleIds, uFilters, channel_filter, rollout>>

MainArtifact ==
    /\ upc = "artifact"
    /\ \E failAt \in 0..(Cardinality(srv.artifacts) + 2) :
          LET r == AddOrUpdateArtifactOp(id, srv, NoId, failAt)
          IN  Statement(r, FailedOf(r))
    /\ UNCHANGED <<uModuleIds, uDistId, uFilters, channel_filter, rollout>>

MainFilters ==
    /\ upc = "filters"
    /\ \E refuse \in BOOLEAN :
          LET r == GetAllTargetfiltersOp(id, srv, refuse)
          IN  /\ Statement(r, FailedOf(r))
              /\ uFilters' = IF Returned(r.out) THEN Listing(srv.filters) ELSE uFilters
    /\ UNCHANGED <<uModuleIds, uDistId, channel_filter, rollout>>

MainEnsureFilter ==
    /\ upc = "ensure"
    /\ \E failAt \in 0..2 :
          LET r == EnsureFilterOp(id, srv, uFilters, ChannelQuery, uDistId, failAt)
          IN  /\ Statement(r, r.failed)
              /\ channel_filter' = IF Returned(r.out)
                                   THEN [id |-> r.value, query |-> ChannelQuery]
                                   ELSE channel_filter
    /\ UNCHANGED <<uModuleIds, uDistId, uFilters, rollout>>

\* the refusals the server can choose from for the requests of
\* createOrUpdateRollout
RolloutRefusals(s) ==
    [targets : BOOLEAN,
     actions : {NoId} \cup s.targets,
     cancel : [s.active -> 0..2],
     rollouts : BOOLEAN,
     delete : SUBSET IdsOf(s.rollouts),
     post : BOOLEAN]

\* rollout = client.createOrUpdateRollout(...), r being what the call did
RolloutStatement(r) ==
    /\ Statement(r.did, r.did.failed)
    /\ rollout' = [start |-> r.start, posted |-> r.posted, atPost |-> r.atPost,
                   value |-> r.did.value]

MainRollout ==
    /\ upc = "rollout"
    /\ \E f \in RolloutRefusals(srv) :
          RolloutStatement(CreateOrUpdateRolloutOp(id, srv, RolloutName, uDistId,
                                                   channel_filter.query, f))
    /\ UNCHANGED <<uModuleIds, uDistId, uFilters, channel_filter>>

(***************************************************************************)
(* Specifications.                                                         *)
(***************************************************************************)
MaxTargets == 3
MaxMsgLen == 2
MaxFleet == 2
MaxRollouts == 2

StatusWords == {"running", "finished", "error"}
MsgAtoms == {SUCCESS, "x", CS, CL}

\* texts of at most n atoms
TextsUpTo(n) == UNION {[1..k -> MsgAtoms] : k \in 0..n}

\* every newest action the server can report, with a first message of at
\* most MaxMsgLen atoms
AllActions ==
    {NoAction}
    \cup [status : StatusWords, entry : {NoEntry}]
    \cup [status : StatusWords,
          entry : [type : StatusWords,
                   messages : {NoMessages, Messages(<<>>)}
                              \cup {Messages(<<m>>) : m \in TextsUpTo(MaxMsgLen)}]]

\* the actions a fleet shows most of the time
UsualActions ==
    {NoAction,
     [status |-> "finished",
      entry |-> [type |-> "finished", messages |-> Messages(<<(<<SUCCESS>>)>>)]],
     [status |-> "running",
      entry |-> [type |-> "running", messages |-> Messages(<<(<<"x">>)>>)]],
     [status |-> "error",
      entry |-> [type |-> "error", messages |-> Messages(<<(<<"x">>)>>)]]}

\* the answer to the channel query: n targets with controller ids 1..n
TargetLists(n, actions) ==
    UNION {{[i \in 1..k |-> [id |-> i, action |-> a[i]]] : a \in [1..k -> actions]}
           : k \in 0..n}

HttpIdle ==
    /\ httpCall = NoCall
    /\ httpOut = NoOutcome

MonitorIdle ==
    /\ mpc = "idle"
    /\ mTargets = <<>>
    /\ mDists = <<>>
    /\ distId = 0
    /\ toUpdate = <<>>
    /\ assignLog = <<>>

\* a server nobody has used yet
EmptyServer ==
    [targets |-> {}, modules |-> {}, dists |-> {}, artifacts |-> {}, filters |-> {},
     rollouts |-> {}, actions |-> {}, active |-> {}, matching |-> {},
     next |-> [k \in Kinds \cup {"rollout"} |-> 0]]

\* a server as an earlier run and a device have left it
UsedServer ==
    [targets |-> {1},
     modules |-> {[id |-> 1, name |-> "a", type |-> "os"]},
     dists |-> {[id |-> 1, name |-> "a", modules |-> {1}]},
     artifacts |-> {[id |-> 1, module |-> 1]},
     filters |-> {},
     rollouts |-> {},
     actions |-> {[id |-> 1, target |-> 1, dist |-> 1]},
     active |-> {1},
     matching |-> {1},
     next |-> [k \in Kinds \cup {"rollout"} |->
                  IF k \in {"softwaremodule", "distributionset", "artifact", "action"}
                  THEN 1 ELSE 0]]

UploadIdle ==
    /\ upc = "idle"
    /\ ulog = <<>>
    /\ uModuleIds = <<>>
    /\ uDistId = NoId
    /\ uFilters = <<>>
    /\ channel_filter = NoFilter
    /\ rollout = NoRollout

\* __attrs_post_init__: a new client, self.id empty
NewClient ==
    /\ id = [k \in Kinds |-> NoId]
    /\ call = NoClientCall
    /\ made = [k \in Kinds |-> NoId]
    /\ ncalls = 0

ClientIdle ==
    /\ NewClient
    /\ srv = EmptyServer
    /\ UploadIdle

InitHttp ==
    /\ HttpIdle
    /\ MonitorIdle
    /\ ClientIdle

NextHttp ==
    \/ UploadGet
    \/ UploadPost
    \/ UploadPut
    \/ UploadDelete
    \/ MonitorGet
    \/ MonitorPost

SpecHttp == InitHttp /\ [][NextHttp]_vars

MonitorStart ==
    /\ mpc = "latest"
    /\ mDists \in {<<>>, <<1>>}
    /\ distId = 0
    /\ toUpdate = <<>>
    /\ assignLog = <<>>

\* the monitor workflow over a fleet of up to MaxTargets targets
InitMonitor ==
    /\ HttpIdle
    /\ ClientIdle
    /\ MonitorStart
    /\ mTargets \in TargetLists(MaxTargets, UsualActions)

\* the monitor workflow over one target in any state
InitClassify ==
    /\ HttpIdle
    /\ ClientIdle
    /\ MonitorStart
    /\ mTargets \in TargetLists(1, AllActions)

NextMonitor ==
    \/ GetLatestDistribution
    \/ ProcessTargets
    \/ ReassignStep

\* any calls of the client's methods, on a new or a used server
InitClient ==
    /\ HttpIdle
    /\ MonitorIdle
    /\ NewClient
    /\ UploadIdle
    /\ srv \in {EmptyServer, UsedServer}

NextClient ==
    \/ add_target
    \/ get_target
    \/ delete_target
    \/ get_attributes
    \/ add_softwaremodule
    \/ get_softwaremodule
    \/ delete_softwaremodule
    \/ add_or_update_softwaremodule
    \/ add_or_update_distributionset
    \/ get_distributionset
    \/ delete_distributionset
    \/ add_artifact
    \/ get_artifact
    \/ delete_artifact
    \/ add_or_update_artifact
    \/ add_targetfilter
    \/ get_targetfilter
    \/ assign_target
    \/ get_action
    \/ get_action_status
    \/ cancel_action

SpecClient == InitClient /\ [][NextClient]_vars

\* the filters an earlier run can have left: none, the one this script makes,
\* or one whose query is written without spaces
FilterSets ==
    {{}} \cup {{[id |-> 1, query |-> q, dist |-> NoId]} : q \in Queries}

\* a fleet of n targets, the first m in the channel, each with one action of
\* distribution set 1, those of the targets in A still active, and k rollouts
Fleet(s, n, m, A, k, F) ==
    [s EXCEPT !.targets = 1..n,
              !.matching = 1..m,
              !.actions = {[id |-> t, target |-> t, dist |-> 1] : t \in 1..n},
              !.active = A,
              !.rollouts = {[id |-> i,
                             name |-> IF i = 1 THEN RolloutName ELSE "old",
                             dist |-> 1] : i \in 1..k},
              !.filters = F,
              !.next = [@ EXCEPT !["action"] = n, !["rollout"] = k,
                                 !["targetfilter"] = Cardinality(F)]]

\* the servers the upload script can meet: one that holds nothing but
\* targets and filters, or one that earlier runs have used, with the module
\* name of this run or with another one
UploadServers ==
    {[EmptyServer EXCEPT !.targets = 1..n, !.matching = 1..m, !.filters = F,
                         !.next = [@ EXCEPT !["targetfilter"] = Cardinality(F)]] :
        n \in 0..MaxFleet, m \in 0..MaxFleet, F \in FilterSets}
    \cup {Fleet([UsedServer EXCEPT
                    !.modules = {[id |-> x.id, name |-> nm, type |-> x.type] : x \in @}],
                n, m, A, k, F) :
             n \in 0..MaxFleet, m \in 0..MaxFleet, A \in SUBSET (1..MaxFleet),
             k \in 0..MaxRollouts, F \in FilterSets, nm \in Names}

InitUpload ==
    /\ HttpIdle
    /\ MonitorIdle
    /\ NewClient
    /\ srv \in {s \in UploadServers : s.matching \subseteq s.targets
                                       /\ s.active \subseteq s.targets}
    /\ upc = "config1"
    /\ ulog = <<>>
    /\ uModuleIds = <<>>
    /\ uDistId = NoId
    /\ uFilters = <<>>
    /\ channel_filter = NoFilter
    /\ rollout = NoRollout

NextUpload ==
    \/ MainSetConfig
    \/ MainSoftwaremodule
    \/ MainModuleIds
    \/ MainDistributionset
    \/ MainArtifact
    \/ MainFilters
    \/ MainEnsureFilter
    \/ MainRollout

SpecUpload == InitUpload /\ [][NextUpload]_vars

SpecMonitor == InitMonitor /\ [][NextMonitor]_vars
SpecClassify == InitClassify /\ [][NextMonitor]_vars

Called == httpCall.verb # None
Is2xx(s) == 200 <= s /\ s < 300

\* C7 (as claimed): every response outside 200..299 raises HawkbitError
\* carrying the status code and the body, JSON-decoded when the body decodes
\* as JSON and raw otherwise; no such response is returned normally.
C7_NonOkRaisesWithDecodedBody ==
    (Called /\ httpCall.payload # "both" /\ ~Is2xx(httpCall.resp.status)) =>
        /\ httpOut.kind = "HawkbitError"
        /\ httpOut.status = httpCall.resp.status
        /\ httpOut.body = IF httpCall.resp.json THEN "decoded" ELSE "raw"

\* C8 (as claimed): every HTTP helper returns the parsed JSON body, and
\* raises nothing, for a response with any status in 200..299 (whose body
\* is JSON).
C8_Any2xxReturnsParsed ==
    (Called /\ httpCall.payload # "both" /\ httpCall.resp.json
        /\ Is2xx(httpCall.resp.status)) =>
        httpOut = Return("parsed")

\* C8 (amended): for a response whose body is JSON, upload get returns the
\* parsed body on status 200; upload post returns it on any 200..299 status
\* when json_data or file_name was given and returns None with neither;
\* put and delete return None on any 200..299 status; monitor get returns
\* the parsed body on 200 and monitor post on 200 and 201.
C8_SuccessReturns ==
    (Called /\ httpCall.payload # "both" /\ httpCall.resp.json) =>
        LET s == httpCall.resp.status
            c == <<httpCall.script, httpCall.verb>>
        IN  /\ (c = <<"upload", "get">> /\ s = 200) => httpOut = Return("parsed")
            /\ (c = <<"upload", "post">> /\ Is2xx(s)) =>
                   httpOut = IF httpCall.payload = "none" THEN Return(None)
                             ELSE Return("parsed")
            /\ (c \in {<<"upload", "put">>, <<"upload", "delete">>} /\ Is2xx(s)) =>
                   httpOut = Return(None)
            /\ (c = <<"monitor", "get">> /\ s = 200) => httpOut = Return("parsed")
            /\ (c = <<"monitor", "post">> /\ s \in {200, 201}) =>
                   httpOut = Return("parsed")

\* a post with a file on a 2xx status other than 200 returned the parsed body
C8_Witness ==
    /\ httpCall.script = "upload" /\ httpCall.verb = "post"
    /\ httpCall.payload = "file" /\ httpCall.resp.status = 204
    /\ httpCall.resp.json
    /\ httpOut = Return("parsed")

(***************************************************************************)
(* The monitor script's claims.                                            *)
(***************************************************************************)
\* process_targets has returned its list
Processed == mpc \in {"reassign", "done"}
InUpdateList(tid) == \E i \in 1..Len(toUpdate) : toUpdate[i] = tid
Reassigned(tid) == \E i \in 1..Len(assignLog) : assignLog[i].req.target = tid
TargetIndices == 1..Len(mTargets)
HasAction(t) == t.action # NoAction

\* the first message of the newest status entry: a text, or none
HasMessage(t) ==
    t.action.entry.messages.present /\ t.action.entry.messages.list # <<>>
FirstMessage(t) == t.action.entry.messages.list[1]

\* a text up to its first ", " or ": "
UpToSeparator(m) ==
    IF \A i \in 1..Len(m) : m[i] \notin {CS, CL}
    THEN m
    ELSE SubSeq(m, 1, (CHOOSE k \in 1..Len(m) :
                          m[k] \in {CS, CL} /\ \A j \in 1..(k - 1) : m[j] \notin {CS, CL}) - 1)

C3_RunningStatusNeverUpdated ==
    \A i \in TargetIndices :
        mTargets[i].action.status = "running" =>
            ~InUpdateList(mTargets[i].id) /\ ~Reassigned(mTargets[i].id)

\* C3 (amended): a target whose newest action's newest status entry has
\* type 'running' is never put in the update list and never reassigned,
\* whatever the status of the action and the message of the entry.
C3_RunningEntryNeverUpdated ==
    \A i \in TargetIndices :
        mTargets[i].action.entry.type = "running" =>
            ~InUpdateList(mTargets[i].id) /\ ~Reassigned(mTargets[i].id)

\* a failed action whose newest entry is 'running' was processed and left out
C3_Witness ==
    /\ mpc = "done"
    /\ Len(mTargets) = 1
    /\ mTargets[1].action.status = "error"
    /\ mTargets[1].action.entry.type = "running"
    /\ toUpdate = <<>>
    /\ assignLog = <<>>

\* C4: in reassign_distribution a refused assignment is reported for its
\* target and the loop goes on: the assignments are attempted once each, in
\* list order, and the loop ends only after the last target of the list.
C4_RefusalDoesNotStopLoop ==
    /\ Len(assignLog) <= Len(toUpdate)
    /\ \A i \in 1..Len(assignLog) :
          /\ assignLog[i].req.target = toUpdate[i]
          /\ ~Is2xx(assignLog[i].status) => assignLog[i].report = "error"
    /\ mpc # "reassign" => Len(assignLog) = Len(toUpdate)

\* the first assignment was refused with 409 and the later ones were sent
C4_Witness ==
    /\ mpc = "done"
    /\ Len(toUpdate) = 3
    /\ Len(assignLog) = 3
    /\ assignLog[1].status = 409
    /\ assignLog[1].report = "error"
    /\ assignLog[2].req.target = toUpdate[2]
    /\ assignLog[3].req.target = toUpdate[3]

(***************************************************************************)
(* The upload client's claims.                                             *)
(***************************************************************************)
PostsTo(reqs, path) ==
    \E i \in 1..Len(reqs) : reqs[i].verb = "POST" /\ reqs[i].path = path
DistsNamed(s, name) == {d \in s.dists : d.name = name}

\* C1: a call of add_or_update_distributionset that follows a successful
\* call with the same name issues no POST to distributionsets; when it
\* returns, it returns the identifier the first call returned and the server
\* holds exactly one distribution set of that name.
C1_SecondUpsertReusesSet ==
    [][(/\ call.method = "add_or_update_distributionset"
        /\ Returned(call.out)
        /\ ncalls' = ncalls + 1
        /\ call'.method = "add_or_update_distributionset"
        /\ call'.name = call.name)
       => /\ ~PostsTo(call'.reqs, "distributionsets")
          /\ Returned(call'.out) =>
                /\ call'.value = call.value
                /\ Cardinality(DistsNamed(srv', call.name)) = 1]_vars

\* the set this call found (no POST) is one that an earlier call of this
\* client created with a POST: the server started with at most one set
C1_Witness ==
    /\ call.method = "add_or_update_distributionset"
    /\ Returned(call.out)
    /\ ~PostsTo(call.reqs, "distributionsets")
    /\ call.value = srv.next["distributionset"]
    /\ call.value \notin IdsOf(UsedServer.dists)
    /\ Cardinality(DistsNamed(srv, call.name)) = 1

\* the client methods that take an optional identifier
OptionalIdMethods ==
    {"get_target", "delete_target", "get_attributes", "get_softwaremodule",
     "delete_softwaremodule", "get_distributionset", "delete_distributionset",
     "add_artifact", "add_or_update_artifact", "get_artifact", "delete_artifact",
     "assign_target", "get_action", "get_action_status", "cancel_action"}

\* C5: a method called without an identifier of a kind of which self.id has
\* no entry raises the 'not yet created' HawkbitError and sends no request;
\* no request of these methods is ever built with a missing identifier.
C5_OmittedWithoutDefaultRaises ==
    call.method \in OptionalIdMethods =>
        /\ \A p \in 1..Len(call.args) :
              (call.args[p] = NoId /\ call.before[call.kinds[p]] = NoId) =>
                  (call.out = NotYetCreated /\ call.reqs = <<>>)
        /\ \A i \in 1..Len(call.reqs) :
              \A j \in 1..Len(call.reqs[i].ids) : call.reqs[i].ids[j] # NoId

\* assign_target with a distribution set but no target, on a client that has
\* created no target, raised and sent nothing
C5_Witness ==
    /\ call.method = "assign_target"
    /\ call.args = <<1, NoId>>
    /\ call.before["target"] = NoId
    /\ call.out = NotYetCreated
    /\ call.reqs = <<>>

\* C6: a request sent by a method that was called without an identifier
\* carries, in that identifier's place, the id returned by the most recent
\* successful create or upsert of that kind on this client.
C6_DefaultIsLastMade ==
    \A p \in 1..Len(call.args) :
        call.args[p] = NoId =>
            \A i \in 1..Len(call.reqs) :
                Len(call.reqs[i].ids) >= p =>
                    call.reqs[i].ids[p] = made[call.kinds[p]]

\* after two modules were made, get_softwaremodule() asked for the second
C6_Witness ==
    /\ call.method = "get_softwaremodule"
    /\ call.args = <<NoId>>
    /\ Len(call.reqs) = 1
    /\ call.reqs[1].ids = <<2>>
    /\ made["softwaremodule"] = 2
    /\ IdsOf(srv.modules) = {1, 2}

(***************************************************************************)
(* The upload workflow's claims.                                           *)
(***************************************************************************)
\* the requests of the workflow that sent r
Sent(r) == {i \in 1..Len(ulog) : ulog[i].req = r}
PostRollout == Req("POST", "rollouts", <<uDistId>>)
DeleteRollout(x) == Req("DELETE", "rollouts/{}", <<x>>)

CaughtRequests ==
    {r \in {ulog[i].req : i \in 1..Len(ulog)} :
        \/ r.verb = "POST" /\ r.path = "targetfilters/{}/autoAssignDS"
        \/ r.verb = "DELETE" /\ r.path \in {"targets/{}/actions/{}",
                                            "targets/{}/actions/{}?force=true",
                                            "rollouts/{}"}
        \/ r.verb = "POST" /\ r.path = "rollouts"}

ChannelQueryNoSpaces == "attribute.update_channel==\"stable\""

\* the filters of the listing that main took whose query is q
Listed(q) == {uFilters[i] : i \in {j \in 1..Len(uFilters) : uFilters[j].query = q}}
AutoAssign(f) == {i \in 1..Len(ulog) :
                     /\ ulog[i].req.verb = "POST"
                     /\ ulog[i].req.path = "targetfilters/{}/autoAssignDS"
                     /\ ulog[i].req.ids[1] = f}
CreatesFilter == \E i \in 1..Len(ulog) :
                     ulog[i].req.verb = "POST" /\ ulog[i].req.path = "targetfilters"

\* C11 as stated: with a filter whose query is
\* attribute.update_channel=="stable" on the server, a run of the workflow
\* for channel stable that reaches its end has made no new filter and has set
\* that filter's auto-assign distribution set to its own.
C11_FilterWithoutSpacesReused ==
    (upc = "end" /\ Listed(ChannelQueryNoSpaces) # {}) =>
        /\ ~CreatesFilter
        /\ \A f \in srv.filters :
              f.query = ChannelQueryNoSpaces => f.dist = uDistId

\* C11: with a filter on the server whose query is, character for character,
\* the one the script writes (attribute.update_channel == "stable"), a run
\* that gets past ensure_filter has sent no POST that creates a filter, the
\* server holds the filters it held, and the first such filter has the run's
\* distribution set for auto-assignment when the server accepted the
\* auto-assign POST and the one it had when the server refused it.
C11_FilterAsWrittenReused ==
    (channel_filter # NoFilter /\ Listed(ChannelQuery) # {}) =>
        /\ ~CreatesFilter
        /\ IdsOf(srv.filters) = {uFilters[i].id : i \in 1..Len(uFilters)}
        /\ channel_filter.id \in IdsOf(Listed(ChannelQuery))
        /\ \A f \in srv.filters :
              f.id = channel_filter.id =>
                  /\ AutoAssign(f.id) # {}
                  /\ \A i \in AutoAssign(f.id) :
                        /\ ulog[i].req.ids[2] = uDistId
                        /\ ulog[i].ok => f.dist = uDistId
                        /\ ~ulog[i].ok => f \in Listed(ChannelQuery)

\* a run reached its end with the filter it found now assigning its set
C11_Witness ==
    /\ upc = "end"
    /\ Listed(ChannelQuery) # {}
    /\ uDistId # NoId
    /\ \E f \in srv.filters : f.id = channel_filter.id /\ f.dist = uDistId
    /\ Cardinality(srv.filters) = 1

ModulesLike(s, name, module_type) ==
    {m \in s.modules : m.name = name /\ m.type = module_type}

\* C12: a call of add_or_update_softwaremodule changes the server's modules
\* only when the server held no module of its name and type; when the server
\* held one the call sends no POST, leaves the modules as they were, and on
\* return gives that module's id and has stored it as the last-used
\* software-module id; after the call the server holds at most one module of
\* that name and type.
C12_ModuleUpsertCreatesOnlyWhenAbsent ==
    [][(ncalls' = ncalls + 1 /\ call'.method = "add_or_update_softwaremodule")
       => /\ srv'.modules # srv.modules =>
                ModulesLike(srv, call'.name, call'.type) = {}
          /\ ModulesLike(srv, call'.name, call'.type) # {} =>
                /\ ~PostsTo(call'.reqs, "softwaremodules")
                /\ srv'.modules = srv.modules
                /\ Returned(call'.out) =>
                      /\ call'.value \in IdsOf(ModulesLike(srv, call'.name, call'.type))
                      /\ id'["softwaremodule"] = call'.value
          /\ Cardinality(ModulesLike(srv', call'.name, call'.type)) <= 1]_vars

\* the call found, without a POST, the second module of the server, which an
\* earlier call of this client had created
C12_Witness ==
    /\ call.method = "add_or_update_softwaremodule"
    /\ Returned(call.out)
    /\ ~PostsTo(call.reqs, "softwaremodules")
    /\ call.value = 2
    /\ id["softwaremodule"] = 2
    /\ srv.next["softwaremodule"] = 2
    /\ Cardinality(ModulesLike(srv, call.name, call.type)) = 1

\* the module a call with one optional module id worked on
ModuleOf(c) == IF c.args[1] # NoId THEN c.args[1] ELSE c.before["softwaremodule"]

\* C13: when add_or_update_artifact returns, no artifact that its module
\* held before the call is on the server, the module holds exactly one
\* artifact, a new one whose id the call returned, and that id is the
\* last-used artifact id.
C13_ArtifactUpsertReplacesAll ==
    [][(/\ ncalls' = ncalls + 1
        /\ call'.method = "add_or_update_artifact"
        /\ Returned(call'.out))
       => /\ ArtifactsOf(srv, ModuleOf(call')) \cap srv'.artifacts = {}
          /\ ArtifactsOf(srv', ModuleOf(call')) =
                {[id |-> call'.value, module |-> ModuleOf(call')]}
          /\ call'.value \notin IdsOf(srv.artifacts)
          /\ id'["artifact"] = call'.value]_vars

\* the call listed the module's one artifact, deleted it and uploaded the
\* new one
C13_Witness ==
    /\ call.method = "add_or_update_artifact"
    /\ Returned(call.out)
    /\ Len(call.reqs) = 3
    /\ call.reqs[2].verb = "DELETE"
    /\ ArtifactsOf(srv, ModuleOf(call)) = {[id |-> call.value, module |-> ModuleOf(call)]}
    /\ id["artifact"] = call.value

\* the assignment requests sent for target tid
RequestsFor(tid) == {i \in 1..Len(assignLog) : assignLog[i].req.target = tid}

\* C14: in a run of the monitor script every assignment request is for a
\* target of the update list, is of type 'forced' and carries the id of the
\* newest distribution set; no target gets a second request; and when the
\* run has ended normally every target of the update list has got its one
\* request.
C14_OneForcedRequestPerListedTarget ==
    /\ \A i \in 1..Len(assignLog) :
          /\ \E j \in 1..Len(toUpdate) : assignLog[i].req.target = toUpdate[j]
          /\ assignLog[i].req.type = "forced"
          /\ mDists # <<>>
          /\ assignLog[i].req.id = mDists[1]
          /\ RequestsFor(assignLog[i].req.target) = {i}
    /\ mpc = "done" =>
          \A j \in 1..Len(toUpdate) : Cardinality(RequestsFor(toUpdate[j])) = 1

\* a run ended with two of three targets in the update list: each got one
\* request, one of them refused, and the third target got none
C14_Witness ==
    /\ mpc = "done"
    /\ Len(mTargets) = 3
    /\ Len(toUpdate) = 2
    /\ Len(assignLog) = 2
    /\ assignLog[1].report = "error"
    /\ assignLog[2].report = "reassigned"
    /\ \A j \in 1..2 : Cardinality(RequestsFor(toUpdate[j])) = 1

\* the kind of the error raised for a response that is not 2xx
HttpErrorKind == RaiseHttpError([status |-> 409, json |-> TRUE]).kind

\* a default id was asked for that the client does not have
DefaultMissing ==
    /\ call.method \in OptionalIdMethods
    /\ \E p \in 1..Len(call.args) :
          call.args[p] = NoId /\ call.before[call.kinds[p]] = NoId

\* C15 as stated: the error raised for a missing default identifier is of
\* another kind than the error raised for a non-2xx response.
C15_MissingDefaultHasOwnKind ==
    DefaultMissing => call.out.kind # HttpErrorKind

\* C15: the error raised for a missing default identifier is of the kind of
\* the error raised for a non-2xx response, HawkbitError; the two differ in
\* what they carry: the first the text '<kind> not yet created' and no status,
\* the second the status of a response that the client got for a request.
C15_OneKindToldApartByMessage ==
    /\ DefaultMissing =>
          /\ call.out.kind = HttpErrorKind
          /\ call.out.body = "not yet created"
          /\ call.out.status = 0
    /\ (call.out.kind = HttpErrorKind /\ call.out.body # "not yet created") =>
          /\ call.reqs # <<>>
          /\ call.out.status # 0
          /\ ~Is2xx(call.out.status)

\* get_action() on a new client: the error of the id store, a HawkbitError
C15_Witness ==
    /\ call.method = "get_action"
    /\ call.args = <<NoId, NoId>>
    /\ DefaultMissing
    /\ call.out.kind = "HawkbitError"
    /\ call.out.body = "not yet created"

\* C16: when the server has accepted the request of assign_target, the call
\* returns the id of the action the server made and self.id holds it as the
\* last-used action id.
C16_AcceptedAssignmentStoresAction ==
    (/\ call.method = "assign_target"
     /\ call.reqs # <<>>
     /\ call.out.kind # "HawkbitError") =>
        /\ Returned(call.out)
        /\ call.value = srv.next["action"]
        /\ id["action"] = call.value

DeleteMethods ==
    {"delete_target", "delete_softwaremodule", "delete_distributionset", "delete_artifact"}

\* the kind a delete method removes, and the id it was asked to remove
DeletedKind(c) == c.kinds[Len(c.kinds)]
DeletedId(c) ==
    IF c.args[Len(c.args)] = NoId THEN c.before[DeletedKind(c)] ELSE c.args[Len(c.args)]

\* C17: a delete_* call that succeeds on the last-used id of its kind removes
\* exactly that entry of self.id; one that succeeds on another id, and one
\* that fails, leave self.id as it was.
C17_DeleteForgetsOnlyTheLastUsed ==
    call.method \in DeleteMethods =>
        id = IF Returned(call.out) /\ DeletedId(call) = call.before[DeletedKind(call)]
             THEN [call.before EXCEPT ![DeletedKind(call)] = NoId]
             ELSE call.before

\* C17 witness: the last-used id was deleted and its entry is gone, the others kept
C17_Witness ==
    /\ call.method \in DeleteMethods
    /\ Returned(call.out)
    /\ call.before[DeletedKind(call)] # NoId
    /\ id[DeletedKind(call)] = NoId
    /\ \E k \in DOMAIN id : id[k] # NoId

\* C17 witness: another id than the last-used one was deleted
C17_WitnessOther ==
    /\ call.method \in DeleteMethods
    /\ Returned(call.out)
    /\ call.before[DeletedKind(call)] # NoId
    /\ DeletedId(call) # call.before[DeletedKind(call)]

\* the modules of the distribution set with this id
ModulesOfSet(d) == UNION {x.modules : x \in {y \in srv.dists : y.id = d}}

\* the module that holds the artifact uploaded in this run
UploadedTo == {a.module : a \in {x \in srv.artifacts : x.id = id["artifact"]}}

\* C18: when the upload workflow has run to its end and has created a
\* rollout, the distribution set of that rollout, and the set the channel
\* filter assigns, hold the software module the bundle was uploaded to.
C18_RolloutSetHoldsUploadedModule ==
    (upc = "end" /\ rollout.value # NoId) =>
        /\ \A r \in srv.rollouts :
              r.id = rollout.value => UploadedTo \subseteq ModulesOfSet(r.dist)
        /\ \A f \in srv.filters :
              (f.id = channel_filter.id /\ f.dist # NoId) =>
                  UploadedTo \subseteq ModulesOfSet(f.dist)

\* the requests of the log that delete or create a rollout
RolloutChanges ==
    {i \in 1..Len(ulog) :
        \/ ulog[i].req.verb = "DELETE" /\ ulog[i].req.path = "rollouts/{}"
        \/ ulog[i].req.verb = "POST" /\ ulog[i].req.path = "rollouts"}

\* the targets the filter query matches
MatchedTargets == srv.matching \cap srv.targets

\* C19: createOrUpdateRollout sends a DELETE or the POST for a rollout only
\* when the query matches a target; when it matches none, no rollout is
\* deleted, none is created, and the call, when it returns, returns None.
C19_NoMatchNoRolloutChange ==
    MatchedTargets = {} =>
        /\ RolloutChanges = {}
        /\ upc = "end" =>
              /\ rollout.value = NoId
              /\ ~rollout.posted
              /\ IdsOf(srv.rollouts) = rollout.start

\* C19 witness: the query matched none of the targets of the server, the
\* call returned and the old rollouts are still there
C19_Witness ==
    /\ upc = "end"
    /\ MatchedTargets = {}
    /\ srv.targets # {}
    /\ rollout.start # {}
    /\ IdsOf(srv.rollouts) = rollout.start
    /\ \E i \in 1..Len(ulog) : ulog[i].step = "rollout"

\* C19 witness: the query matched a target, the old rollouts were deleted and
\* the new one created
C19_WitnessMatched ==
    /\ upc = "end"
    /\ MatchedTargets # {}
    /\ rollout.start # {}
    /\ rollout.value # NoId
    /\ IdsOf(srv.rollouts) = {rollout.value}

\* C20: a target of the channel query without any action is never put in
\* the update list and is never sent a reassignment.
C20_NoActionNeverUpdated ==
    \A i \in TargetIndices :
        ~HasAction(mTargets[i]) =>
            ~InUpdateList(mTargets[i].id) /\ ~Reassigned(mTargets[i].id)

\* C20 witness: the run is over, a target without action was left alone
\* while another target of the same answer was reassigned
C20_Witness ==
    /\ mpc = "done"
    /\ \E i \in TargetIndices : ~HasAction(mTargets[i])
    /\ \E i \in TargetIndices : HasAction(mTargets[i]) /\ Reassigned(mTargets[i].id)

CreatingMethods ==
    {"add_target", "add_softwaremodule", "add_or_update_softwaremodule",
     "add_or_update_distributionset", "add_targetfilter", "add_artifact",
     "add_or_update_artifact"}

\* a creating call has raised HawkbitError
CreateFailed == call.method \in CreatingMethods /\ call.out.kind = "HawkbitError"

\* the call deleted the artifact that was the last-used one: a DELETE for it
\* was sent before the request that failed
DeletedLastUsedArtifact ==
    /\ call.before["artifact"] # NoId
    /\ \E i \in 1..(Len(call.reqs) - 1) :
          /\ call.reqs[i].verb = "DELETE"
          /\ call.reqs[i].path = "softwaremodules/{}/artifacts/{}"
          /\ call.reqs[i].ids[2] = call.before["artifact"]

\* C21 as stated: when a creating or upserting operation raises
\* HawkbitError, self.id is exactly the map it was before the call.
C21_FailedCreateKeepsIds == CreateFailed => id = call.before

\* C21: when a creating or upserting operation raises HawkbitError, self.id
\* is the map it was before the call, except that add_or_update_artifact has
\* removed the last-used artifact id when it had deleted that artifact
\* before the request that failed.
C21_FailedCreateKeepsIdsButDeleted ==
    CreateFailed =>
        id = IF call.method = "add_or_update_artifact" /\ DeletedLastUsedArtifact
             THEN [call.before EXCEPT !["artifact"] = NoId]
             ELSE call.before

\* C21 witness: add_or_update_artifact deleted the last-used artifact, then
\* the upload was refused
C21_Witness ==
    /\ CreateFailed
    /\ call.method = "add_or_update_artifact"
    /\ DeletedLastUsedArtifact
    /\ id["artifact"] = NoId
    /\ call.reqs[Len(call.reqs)].verb = "POST"

\* C21 witness: a creating call was refused and self.id, holding ids, is as before
C21_WitnessKept ==
    /\ CreateFailed
    /\ call.reqs # <<>>
    /\ \E k \in DOMAIN id : id[k] # NoId
    /\ id = call.before

====
